---- MODULE Spec2Model ----
(***************************************************************************)
(* A model of scripts/content/fetch_news.py: the fetch helper, the keyword *)
(* filter, the per-source adapters, the source registry and the CLI        *)
(* dispatcher.                                                             *)
(*                                                                         *)
(* Python values are records [k |-> kind, v |-> payload]:                  *)
(*   "none"  None                    "num"  an int (v the number)          *)
(*   "str"   a str (v a sequence of one-character strings; a longer string *)
(*           in it stands for a literal piece of text that is never split) *)
(*   "list"  a list (v a sequence of values)                               *)
(*   "dict"  a dict (v a function from keys to values)                     *)
(*   "text"  a response body as a str (v.form: "empty", "garbage" for text *)
(*           that is neither JSON nor matched by a pattern, "json" with    *)
(*           v.val the value json.loads gives, "html" with v.val the       *)
(*           matches re.findall gives for the adapter's pattern)           *)
(*   "raise" the evaluation raised an exception of class Exception         *)
(***************************************************************************)
EXTENDS Integers, Sequences, FiniteSets, TLC

VARIABLES
    f_pc, f_items, f_keyword, f_out,                     \* one call of filter_items
    pc, args, sources, calls, all_items, stdout, stderr, world,  \* one run of main
    a_pc, a_key, a_limit, a_keyword, a_env, a_result, a_raised, a_err, a_reqs,
                                                         \* one call of an adapter
    h_pc, h_fn, h_net, h_out                             \* one call of the fetch helper

fvars == <<f_pc, f_items, f_keyword, f_out>>
mvars == <<pc, args, sources, calls, all_items, stdout, stderr, world>>
avars == <<a_pc, a_key, a_limit, a_keyword, a_env, a_result, a_raised, a_err, a_reqs>>
hvars == <<h_pc, h_fn, h_net, h_out>>
vars == <<fvars, mvars, avars, hvars>>

\* ------------------------------------------------------------------ bounds
MaxItems == 2      \* items handed to filter_items
MaxKw == 3         \* characters of a --keyword argument
MaxTokens == 2     \* tokens of a --source argument
MaxLimit == 2      \* largest small --limit explored
NegLimits == 1     \* --limit down to -NegLimits
MaxRaw == 3        \* raw records in one upstream response
MaxIds == 3        \* ids of a short top-stories list

\* ------------------------------------------------------------ Python values
None == [k |-> "none", v |-> <<>>]
RAISE == [k |-> "raise", v |-> <<>>]
Num(n) == [k |-> "num", v |-> n]
Str(s) == [k |-> "str", v |-> s]
List(l) == [k |-> "list", v |-> l]
Dict(d) == [k |-> "dict", v |-> d]
EmptyStr == Str(<<>>)
EmptyDict == Dict([x \in {} |-> None])
EmptyList == List(<<>>)

Min(a, b) == IF a <= b THEN a ELSE b
Max(a, b) == IF a >= b THEN a ELSE b

\* bool(v)
Truthy(x) ==
    CASE x.k = "none" -> FALSE
      [] x.k = "num" -> x.v # 0
      [] x.k = "str" -> x.v # <<>>
      [] x.k = "list" -> x.v # <<>>
      [] x.k = "dict" -> DOMAIN x.v # {}
      [] x.k = "text" -> x.v.form # "empty"
      [] OTHER -> FALSE

\* s[:n] on a sequence: a negative n counts from the end
SeqSlice(s, n) ==
    IF n >= 0 THEN SubSeq(s, 1, Min(n, Len(s)))
    ELSE SubSeq(s, 1, Max(Len(s) + n, 0))

\* x[:n]: str and list slice, everything else raises TypeError
PySlice(x, n) ==
    CASE x.k = "str" -> Str(SeqSlice(x.v, n))
      [] x.k = "list" -> List(SeqSlice(x.v, n))
      [] OTHER -> RAISE

\* x.get(key, default): only a dict has .get (AttributeError otherwise)
PyGet(x, key, default) ==
    IF x.k # "dict" THEN RAISE
    ELSE IF key \in DOMAIN x.v THEN x.v[key] ELSE default

\* key in x: membership in a dict's keys, a list's elements or a str's text;
\* None and numbers are not iterable (TypeError)
PyInRaises(x) == x.k \in {"none", "num", "raise"}
PyIn(key, x) ==
    CASE x.k = "dict" -> key \in DOMAIN x.v
      [] x.k = "list" -> \E i \in 1..Len(x.v) : x.v[i] = Str(<<key>>)
      [] x.k = "str" -> \E i \in 1..Len(x.v) : x.v[i] = key
      [] OTHER -> FALSE

\* a or b
PyOr(a, b) == IF a.k = "raise" THEN RAISE ELSE IF Truthy(a) THEN a ELSE b

\* the text an f-string puts for {x}: str(x)
FStr(x) ==
    CASE x.k = "str" -> x.v
      [] x.k = "num" -> <<ToString(x.v)>>
      [] x.k = "none" -> <<"None">>
      [] x.k = "list" -> <<"[..]">>
      [] x.k = "dict" -> <<"{..}">>
      [] OTHER -> <<>>

\* f"{prefix}{x}{suffix}"
Fmt(prefix, x, suffix) == IF x.k = "raise" THEN RAISE ELSE Str(prefix \o FStr(x) \o suffix)

\* str.lower(), character by character
LowerChar(c) ==
    CASE c = "A" -> "a"
      [] c = "B" -> "b"
      [] c = "E" -> "e"
      [] c = "F" -> "f"
      [] c = "L" -> "l"
      [] c = "V" -> "v"
      [] c = "X" -> "x"
      [] OTHER -> c
Lower(s) == [i \in 1..Len(s) |-> LowerChar(s[i])]

\* str.strip(): leading and trailing blanks removed
RECURSIVE LStrip(_)
LStrip(s) == IF s # <<>> /\ Head(s) = " " THEN LStrip(Tail(s)) ELSE s
RECURSIVE RStrip(_)
RStrip(s) == IF s # <<>> /\ s[Len(s)] = " " THEN RStrip(SubSeq(s, 1, Len(s) - 1)) ELSE s
Strip(s) == RStrip(LStrip(s))

\* str.split(','): one piece more than there are commas, empty pieces kept
RECURSIVE SplitAcc(_, _, _)
SplitAcc(s, cur, acc) ==
    IF s = <<>> THEN Append(acc, cur)
    ELSE IF Head(s) = "," THEN SplitAcc(Tail(s), <<>>, Append(acc, cur))
    ELSE SplitAcc(Tail(s), Append(cur, Head(s)), acc)
Split(s) == SplitAcc(s, <<>>, <<>>)

\* k in s for two strs: k occurs in s as a contiguous run
RECURSIVE IsPrefix(_, _)
IsPrefix(k, s) ==
    IF k = <<>> THEN TRUE
    ELSE IF s = <<>> THEN FALSE
    ELSE Head(k) = Head(s) /\ IsPrefix(Tail(k), Tail(s))
RECURSIVE Contains(_, _)
Contains(k, s) ==
    IF IsPrefix(k, s) THEN TRUE
    ELSE IF s = <<>> THEN FALSE
    ELSE Contains(k, Tail(s))

\* ------------------------------------------------------------ filter_items
\* item.get('title', '').lower() of one item: raises when the title is no str
TitleLower(item) ==
    LET t == PyGet(item, "title", EmptyStr) IN
    IF t.k = "str" THEN Str(Lower(t.v)) ELSE RAISE

\* any(k in title for k in keywords)
AnyKeywordIn_NoLower(keywords, item) ==
    LET t == PyGet(item, "title", EmptyStr) IN
    \E i \in 1..Len(keywords) : Contains(keywords[i], t.v)
AnyKeywordIn(keywords, item) ==
    \E i \in 1..Len(keywords) : Contains(keywords[i], TitleLower(item).v)

\* [item for item in items if any(...)]
KeepMatching(items, keywords) ==
    LET Keep(item) == AnyKeywordIn(keywords, item) IN SelectSeq(items, Keep)

\* filter_items(items, keyword): items a sequence of dicts, keyword None or a str;
\* the result is a list, or RAISE when some title is not a str
filter_items(items, keyword) ==
    IF ~Truthy(keyword) THEN List(items)
    ELSE LET split == Split(keyword.v)
             keywords == [i \in 1..Len(split) |-> Lower(split[i])]
         IN IF \E i \in 1..Len(items) : TitleLower(items[i]).k = "raise"
            THEN RAISE
            ELSE List(KeepMatching(items, keywords))

\* ------------------------------------------------- specification: the filter
\* titles of the items handed to the filter
FilterTitles == {<<>>, <<"a">>, <<"A", "b">>, <<"b", "a">>, <<"B">>}
FilterItemPool ==
    {Dict([source |-> Str(<<"S">>), title |-> Str(t)]) : t \in FilterTitles}
        \cup {Dict([source |-> Str(<<"S">>)])}
KwChars == {"a", "B", ","}
SeqsUpTo(S, n) == UNION {[1..m -> S] : m \in 0..n}
FilterKeywords == {None} \cup {Str(s) : s \in SeqsUpTo(KwChars, MaxKw)}

FIdle == f_pc = "idle" /\ f_items = <<>> /\ f_keyword = None /\ f_out = None
MIdle ==
    /\ pc = "idle" /\ args = <<>> /\ sources = <<>> /\ calls = <<>>
    /\ all_items = <<>> /\ stdout = <<>> /\ stderr = <<>> /\ world = <<>>
AIdle ==
    /\ a_pc = "idle" /\ a_key = "" /\ a_limit = 0 /\ a_keyword = None
    /\ a_env = <<>> /\ a_result = <<>> /\ a_raised = FALSE /\ a_err = <<>>
    /\ a_reqs = <<>>
HIdle == h_pc = "idle" /\ h_fn = "" /\ h_net = <<>> /\ h_out = <<>>

FilterInit ==
    /\ f_pc = "call"
    /\ f_items \in SeqsUpTo(FilterItemPool, MaxItems)
    /\ f_keyword \in FilterKeywords
    /\ f_out = None
    /\ MIdle /\ AIdle /\ HIdle

\* the call filter_items(f_items, f_keyword)
FilterCall ==
    /\ f_pc = "call"
    /\ f_out' = filter_items(f_items, f_keyword)
    /\ f_pc' = "done"
    /\ UNCHANGED <<f_items, f_keyword, mvars, avars, hvars>>

FilterNext == FilterCall
SpecFilter == FilterInit /\ [][FilterNext]_vars

\* C4: filter_items equals the reference filter: with no keyword (None or "")
\* the input comes back unchanged; otherwise exactly the items whose title,
\* case-insensitively, contains one of the comma-separated terms, in order.
\* The reference is stated by positions: a term is a maximal comma-free
\* stretch kw[i..j] of the keyword, and it occurs in the title at an offset.
SameLetter(c, d) == LowerChar(c) = LowerChar(d)
IsTerm(kw, i, j) ==
    /\ i \in 1..(Len(kw) + 1) /\ j \in 0..Len(kw) /\ j >= i - 1
    /\ (i = 1 \/ kw[i - 1] = ",")
    /\ (j = Len(kw) \/ kw[j + 1] = ",")
    /\ \A m \in i..j : kw[m] # ","
OccursAt(kw, i, j, title, off) ==
    /\ off + (j - i + 1) <= Len(title)
    /\ \A m \in i..j : SameLetter(kw[m], title[off + (m - i) + 1])
TitleOf(item) == IF "title" \in DOMAIN item.v THEN item.v["title"].v ELSE <<>>
RefMatches(item, kw) ==
    \E i \in 1..(Len(kw) + 1), j \in 0..Len(kw) :
        /\ IsTerm(kw, i, j)
        /\ \E off \in 0..Len(TitleOf(item)) : OccursAt(kw, i, j, TitleOf(item), off)
RefFilter(items, keyword) ==
    IF keyword = None \/ keyword = EmptyStr THEN items
    ELSE LET Keep(item) == RefMatches(item, keyword.v) IN SelectSeq(items, Keep)
C4_FilterEqualsReference ==
    f_pc = "done" => f_out = List(RefFilter(f_items, f_keyword))
\* a call with two terms of which only the second matches, case-insensitively,
\* an item that is kept while another is dropped
C4_Witness ==
    /\ f_pc = "done"
    /\ f_keyword = Str(<<"a", ",", "B">>)
    /\ Len(f_items) = 2 /\ Len(f_out.v) = 1
    /\ f_out.v[1] = f_items[2]
    /\ TitleOf(f_items[2]) = <<"A", "b">>

\* ----------------------------------------------------------- the registry
\* SOURCES: key -> (display name, adapter, category), in definition order
SOURCES == <<
    [key |-> "hackernews",   name |-> "Hacker News",     cat |-> "tech"],
    [key |-> "github",       name |-> "GitHub Trending", cat |-> "tech"],
    [key |-> "v2ex",         name |-> "V2EX",            cat |-> "tech"],
    [key |-> "sspai",        name |-> "sspai",           cat |-> "tech"],
    [key |-> "juejin",       name |-> "juejin",          cat |-> "tech"],
    [key |-> "ithome",       name |-> "ithome",          cat |-> "tech"],
    [key |-> "producthunt",  name |-> "Product Hunt",    cat |-> "tech"],
    [key |-> "weibo",        name |-> "weibo",           cat |-> "china"],
    [key |-> "zhihu",        name |-> "zhihu",           cat |-> "china"],
    [key |-> "baidu",        name |-> "baidu",           cat |-> "china"],
    [key |-> "douyin",       name |-> "douyin",          cat |-> "china"],
    [key |-> "bilibili",     name |-> "bilibili",        cat |-> "china"],
    [key |-> "toutiao",      name |-> "toutiao",         cat |-> "china"],
    [key |-> "tencent",      name |-> "tencent",         cat |-> "china"],
    [key |-> "thepaper",     name |-> "thepaper",        cat |-> "china"],
    [key |-> "hupu",         name |-> "hupu",            cat |-> "china"],
    [key |-> "36kr",         name |-> "36kr",            cat |-> "finance"],
    [key |-> "wallstreetcn", name |-> "wallstreetcn",    cat |-> "finance"],
    [key |-> "cls",          name |-> "cls",             cat |-> "finance"] >>

\* list(SOURCES.keys())
SourceKeys == [i \in 1..Len(SOURCES) |-> SOURCES[i].key]
KeySet == {SOURCES[i].key : i \in 1..Len(SOURCES)}
Categories == {"tech", "china", "finance"}

\* get_sources_by_category(category): the keys of that category, in registry order
RECURSIVE KeysOfCategory(_, _)
KeysOfCategory(reg, category) ==
    IF reg = <<>> THEN <<>>
    ELSE IF Head(reg).cat = category
         THEN <<Head(reg).key>> \o KeysOfCategory(Tail(reg), category)
         ELSE KeysOfCategory(Tail(reg), category)
get_sources_by_category(category) == KeysOfCategory(SOURCES, category)

\* ------------------------------------------------- main: source resolution
\* the str of a sequence of characters, as the keys of SOURCES are written
RECURSIVE Join(_)
Join(cs) == IF cs = <<>> THEN "" ELSE Head(cs) \o Join(Tail(cs))
\* s.strip().lower() on one piece of args.source.split(',')
NormToken(t) == Join(Lower(Strip(t)))

\* the for loop over args.source.split(','): [sources, err], err the unknown
\* tokens reported to the error stream; `all` replaces the list and breaks
RECURSIVE ResolveLoop_AllExtends(_, _, _)
ResolveLoop_AllExtends(tokens, srcs, err) ==
    IF tokens = <<>> THEN [sources |-> srcs, err |-> err]
    ELSE LET s == NormToken(Head(tokens)) IN
         IF s = "all" THEN [sources |-> srcs \o SourceKeys, err |-> err]
         ELSE IF s \in Categories
              THEN ResolveLoop_AllExtends(Tail(tokens), srcs \o get_sources_by_category(s), err)
         ELSE IF s \in KeySet
              THEN ResolveLoop_AllExtends(Tail(tokens), Append(srcs, s), err)
         ELSE ResolveLoop_AllExtends(Tail(tokens), srcs, Append(err, s))
RECURSIVE ResolveLoop(_, _, _)
ResolveLoop(tokens, srcs, err) ==
    IF tokens = <<>> THEN [sources |-> srcs, err |-> err]
    ELSE LET s == NormToken(Head(tokens)) IN
         IF s = "all" THEN [sources |-> SourceKeys, err |-> err]
         ELSE IF s \in Categories
              THEN ResolveLoop(Tail(tokens), srcs \o get_sources_by_category(s), err)
         ELSE IF s \in KeySet
              THEN ResolveLoop(Tail(tokens), Append(srcs, s), err)
         ELSE ResolveLoop(Tail(tokens), srcs, Append(err, s))

\* list(dict.fromkeys(sources)): first occurrences, in order
InSeq(x, s) == \E i \in 1..Len(s) : s[i] = x
RECURSIVE FromKeys_KeepAll(_, _)
FromKeys_KeepAll(s, acc) ==
    IF s = <<>> THEN acc ELSE FromKeys_KeepAll(Tail(s), Append(acc, Head(s)))
RECURSIVE FromKeys(_, _)
FromKeys(s, acc) ==
    IF s = <<>> THEN acc
    ELSE IF InSeq(Head(s), acc) THEN FromKeys(Tail(s), acc)
    ELSE FromKeys(Tail(s), Append(acc, Head(s)))

\* lines 571-584 of main
ResolveSources(source) ==
    LET r == ResolveLoop(Split(source), <<>>, <<>>) IN
    [sources |-> FromKeys(r.sources, <<>>), err |-> r.err]

\* --------------------------------------------------------- the fetch helper
\* What the network does to one request:
\*   "urlerror"  urlopen raises URLError or HTTPError (no connection, HTTP
\*               error status, timeout while connecting)
\*   "oserror"   urlopen or resp.read() raises an exception that is no URLError
\*               (timeout while reading, connection reset, incomplete read)
\*   "badbytes"  the body is not valid UTF-8: .decode('utf-8') raises
\*   "body"      the body arrives and decodes, v the text
NetURLError == [k |-> "urlerror", v |-> <<>>]
NetOSError == [k |-> "oserror", v |-> <<>>]
NetBadBytes == [k |-> "badbytes", v |-> <<>>]
Text(form, val) == [k |-> "text", v |-> [form |-> form, val |-> val]]
NetBody(form, val) == [k |-> "body", v |-> Text(form, val)]
NetJson(val) == NetBody("json", val)
NetHtml(matches) == NetBody("html", matches)

\* fetch(url): [val, err], val the text, None or RAISE, err the diagnostics written
fetch(net) ==
    CASE net.k = "urlerror" -> [val |-> None, err |-> <<"request failed">>]
      [] net.k = "body" -> [val |-> net.v, err |-> <<>>]
      [] OTHER -> [val |-> RAISE, err |-> <<>>]

\* fetch_json(url): [val, err], val the parsed value, None or RAISE
fetch_json(net) ==
    LET r == fetch(net) IN
    IF r.val.k = "raise" THEN r
    ELSE IF Truthy(r.val)
         THEN IF r.val.v.form = "json" THEN [val |-> r.val.v.val, err |-> r.err]
              ELSE [val |-> None, err |-> r.err]
         ELSE [val |-> None, err |-> r.err]

\* json.loads(urlopen(req).read().decode()) as fetch_36kr and fetch_juejin do
\* it, with no helper: every failure is an exception
direct_json(net) ==
    IF net.k = "body" /\ net.v.v.form = "json" THEN net.v.v.val ELSE RAISE

\* re.findall(pattern, text): the matches of the adapter's pattern
FindAll(text) == IF text.v.form = "html" THEN text.v.val ELSE <<>>

\* ---------------------------------------------------- helpers of the adapters
\* x[0]
Index0(x) ==
    CASE x.k = "list" -> IF x.v = <<>> THEN RAISE ELSE x.v[1]
      [] x.k = "str" -> IF x.v = <<>> THEN RAISE ELSE Str(<<x.v[1]>>)
      [] OTHER -> RAISE

\* x[key] for a str key
Subscript(x, key) ==
    IF x.k = "dict" /\ key \in DOMAIN x.v THEN x.v[key] ELSE RAISE

\* urllib.parse.quote(x): a str is percent-encoded, anything else raises
QuoteChar(c) == IF c = " " THEN "%20" ELSE c
Quote(x) ==
    IF x.k = "str" THEN Str([i \in 1..Len(x.v) |-> QuoteChar(x.v[i])]) ELSE RAISE

\* x.replace('api.zhihu.com/questions', 'www.zhihu.com/question')
ReplaceChunk(c) == IF c = "api.zhihu.com/questions" THEN "www.zhihu.com/question" ELSE c
ZhihuReplace(x) ==
    IF x.k = "str" THEN Str([i \in 1..Len(x.v) |-> ReplaceChunk(x.v[i])]) ELSE RAISE

\* the elements a for loop draws from a list or a str
Elements(x) ==
    CASE x.k = "list" -> x.v
      [] x.k = "str" -> [i \in 1..Len(x.v) |-> Str(<<x.v[i]>>)]
      [] OTHER -> <<>>

\* one output record; an exception while a field is computed leaves no record
Item(source, title, url, score, time) ==
    IF title.k = "raise" \/ url.k = "raise" \/ score.k = "raise" \/ time.k = "raise"
    THEN RAISE
    ELSE Dict([source |-> Str(<<source>>), title |-> title, url |-> url,
               score |-> score, time |-> time])

\* items = []; for raw in raws: items.append(F(raw)) -- RAISE when one raises
MapItems(raws, F(_)) ==
    LET ys == [i \in 1..Len(raws) |-> F(raws[i])] IN
    IF \E i \in 1..Len(ys) : ys[i].k = "raise" THEN RAISE ELSE List(ys)

\* return filter_items(items, keyword)[:limit]
FilterAndCut_NoCut(items, keyword, limit) ==
    IF items.k = "raise" THEN RAISE ELSE filter_items(items.v, keyword)
FilterAndCut(items, keyword, limit) ==
    IF items.k = "raise" THEN RAISE
    ELSE LET f == filter_items(items.v, keyword) IN
         IF f.k = "raise" THEN RAISE ELSE PySlice(f, limit)

\* for raw in <raw>[:n]: items.append(F(raw)); return filter_items(...)[:limit]
Pipeline(raw, n, F(_), keyword, limit) ==
    LET sl == IF raw.k = "raise" THEN RAISE ELSE PySlice(raw, n) IN
    IF sl.k = "raise" THEN RAISE
    ELSE FilterAndCut(MapItems(Elements(sl), F), keyword, limit)

\* try: <body> except Exception as e: stderr.write(...); return []
\* [ret, raised, err, reqs]: the list returned, whether an exception leaves the
\* adapter, the diagnostics written, the requests issued in order
TryExcept_Propagate(body, err, reqs, name) ==
    IF body.k = "raise"
    THEN [ret |-> <<>>, raised |-> TRUE, err |-> err, reqs |-> reqs]
    ELSE [ret |-> body.v, raised |-> FALSE, err |-> err, reqs |-> reqs]
TryExcept(body, err, reqs, name) ==
    IF body.k = "raise"
    THEN [ret |-> <<>>, raised |-> FALSE, err |-> Append(err, name), reqs |-> reqs]
    ELSE [ret |-> body.v, raised |-> FALSE, err |-> err, reqs |-> reqs]

Req(url, n) == [url |-> url, n |-> n]

\* ------------------------------------------------------------ the adapters
\* Every adapter is adapter(limit, keyword) in a world env that answers its
\* requests: env.main the one (or first) request, env.alt zhihu's second,
\* env.detail[p] the p-th detail request of hackernews.  The Chinese source
\* labels are written in Latin letters.
S(chunk) == Str(<<chunk>>)

\* data = fetch_json(url); if not data: return []; for item in RAW(data)[:limit*2]: ...
ViaFetchJson(net, RawOf(_), F(_), keyword, limit, name) ==
    LET r == fetch_json(net)
        body == IF r.val.k = "raise" THEN RAISE
                ELSE IF ~Truthy(r.val) THEN EmptyList
                ELSE Pipeline(RawOf(r.val), limit * 2, F, keyword, limit)
    IN TryExcept(body, r.err, <<Req(name, None)>>, name)

\* html = fetch(url); if not html: return []; for m in re.findall(..)[:n]: ...
ViaFetchText(net, n, Keep(_), F(_), keyword, limit, name) ==
    LET r == fetch(net)
        body == IF r.val.k = "raise" THEN RAISE
                ELSE IF ~Truthy(r.val) THEN EmptyList
                ELSE FilterAndCut(
                        MapItems(SelectSeq(SeqSlice(FindAll(r.val), n), Keep), F),
                        keyword, limit)
    IN TryExcept(body, r.err, <<Req(name, None)>>, name)
KeepAll(m) == TRUE

\* --- hackernews
hackernews_item(item, item_id) ==
    Item("Hacker News",
         PyGet(item, "title", EmptyStr),
         PyOr(PyGet(item, "url", None),
              Fmt(<<"https://news.ycombinator.com/item?id=">>, item_id, <<>>)),
         Fmt(<<>>, PyGet(item, "score", Num(0)), <<" points">>),
         EmptyStr)

HNCap == 50

\* ids[:min(limit * 2, 50)]
HNIdsFetched(ids, limit) == PySlice(ids, Min(limit * 2, HNCap))

\* one turn of the for loop over the ids: the detail request of one id and
\* what becomes of its answer ("raise", "skip" or "item")
HNStep(item_id, net) ==
    LET Appended(it, err) ==
            IF it.k = "raise" THEN [kind |-> "raise", item |-> None, err |-> err]
            ELSE [kind |-> "item", item |-> it, err |-> err]
        Turn(item, err) ==
            IF item.k = "raise" THEN [kind |-> "raise", item |-> None, err |-> err]
            ELSE IF ~Truthy(item) THEN [kind |-> "skip", item |-> None, err |-> err]
            ELSE IF item.k # "dict" THEN [kind |-> "raise", item |-> None, err |-> err]
            ELSE IF ~Truthy(PyGet(item, "title", None))
                 THEN [kind |-> "skip", item |-> None, err |-> err]
            ELSE Appended(hackernews_item(item, item_id), err)
        Answered(r) == Turn(r.val, r.err)
    IN Answered(fetch_json(net))

\* the for loop over the ids: [items, reqs, err]; the first turn that raises
\* ends the loop and leaves items RAISE
HNLoop(idseq, detail, top, err0) ==
    LET n == Len(idseq)
        IsItem(o) == o.kind = "item"
        HasErr(o) == o.err # <<>>
        Result(raised, kept, failed, last) ==
            [items |-> IF raised THEN RAISE
                       ELSE List([i \in 1..Len(kept) |-> kept[i].item]),
             reqs |-> top \o [p \in 1..last |-> Req("item", idseq[p])],
             err |-> err0 \o [i \in 1..Len(failed) |-> "request failed"]]
        Upto(turns, raised, last) ==
            Result(raised, SelectSeq(turns, IsItem), SelectSeq(turns, HasErr), last)
        Cut(out, raising, last) == Upto(SubSeq(out, 1, last), raising # {}, last)
        Ended(out, raising) ==
            Cut(out, raising,
                IF raising = {} THEN n
                ELSE CHOOSE p \in raising : \A q \in raising : p <= q)
        Turns(out) == Ended(out, {p \in 1..n : out[p].kind = "raise"})
    IN Turns([p \in 1..n |-> HNStep(idseq[p], detail[p])])

fetch_hackernews(limit, keyword, env) ==
    LET r == fetch_json(env.main)
        ids == r.val
        top == <<Req("topstories", None)>>
    IN IF ids.k = "raise" THEN TryExcept(RAISE, r.err, top, "hackernews")
       ELSE IF ~Truthy(ids) THEN TryExcept(EmptyList, r.err, top, "hackernews")
       ELSE LET sl == HNIdsFetched(ids, limit) IN
            IF sl.k = "raise" THEN TryExcept(RAISE, r.err, top, "hackernews")
            ELSE LET Return(l) == TryExcept(FilterAndCut(l.items, keyword, limit),
                                            l.err, l.reqs, "hackernews")
                 IN Return(HNLoop(Elements(sl), env.detail, top, r.err))

\* --- github, weibo, producthunt, ithome: (g1, g2, g3) the groups of a match
github_item(m) ==
    Item("GitHub Trending",
         Str(Strip(m.g2) \o <<"/">> \o Strip(m.g3)),
         Str(<<"https://github.com">> \o Strip(m.g1)),
         S("trending"), S("today"))
fetch_github(limit, keyword, env) ==
    ViaFetchText(env.main, limit * 2, KeepAll, github_item, keyword, limit, "github")

weibo_keep(m) == ~Contains(<<"javascript:">>, m.g1)
weibo_item(m) ==
    Item("Weibo Resou", Str(Strip(m.g2)), Str(<<"https://s.weibo.com">> \o m.g1),
         EmptyStr, S("shishi"))
fetch_weibo(limit, keyword, env) ==
    ViaFetchText(env.main, limit * 2, weibo_keep, weibo_item, keyword, limit, "weibo")

producthunt_item(m) ==
    Item("Product Hunt", Str(Strip(m.g1)), Str(<<"https://www.producthunt.com">> \o m.g2),
         EmptyStr, S("today"))
fetch_producthunt(limit, keyword, env) ==
    ViaFetchText(env.main, limit, KeepAll, producthunt_item, keyword, limit, "producthunt")

ithome_item(m) ==
    Item("IT Zhijia", Str(Strip(m.g1)), Str(Strip(m.g2)), EmptyStr, EmptyStr)
fetch_ithome(limit, keyword, env) ==
    ViaFetchText(env.main, limit * 2, KeepAll, ithome_item, keyword, limit, "ithome")

\* --- the adapters over fetch_json with one request
v2ex_raw(data) == data
v2ex_item(item) ==
    Item("V2EX", PyGet(item, "title", EmptyStr), PyGet(item, "url", EmptyStr),
         Fmt(<<>>, PyGet(item, "replies", Num(0)), <<" replies">>), S("Hot"))
fetch_v2ex(limit, keyword, env) ==
    ViaFetchJson(env.main, v2ex_raw, v2ex_item, keyword, limit, "v2ex")

tencent_raw(data) == PyGet(PyGet(data, "data", EmptyDict), "list", EmptyList)
tencent_item(item) ==
    Item("Tengxun Xinwen", PyGet(item, "title", EmptyStr), PyGet(item, "url", EmptyStr),
         EmptyStr, S("redian"))
fetch_tencent(limit, keyword, env) ==
    ViaFetchJson(env.main, tencent_raw, tencent_item, keyword, limit, "tencent")

wallstreetcn_raw(data) == PyGet(PyGet(data, "data", EmptyDict), "items", EmptyList)
wallstreetcn_item(item) ==
    Item("Huaerjie Jianwen",
         PyOr(PyGet(item, "title", EmptyStr),
              PySlice(PyGet(item, "content_text", EmptyStr), 100)),
         Fmt(<<"https://wallstreetcn.com/live/">>, PyGet(item, "id", EmptyStr), <<>>),
         EmptyStr, S("kuaixun"))
fetch_wallstreetcn(limit, keyword, env) ==
    ViaFetchJson(env.main, wallstreetcn_raw, wallstreetcn_item, keyword, limit, "wallstreetcn")

sspai_raw(data) == PyGet(data, "list", EmptyList)
sspai_item(item) ==
    Item("Shaoshupai", PyGet(item, "title", EmptyStr),
         Fmt(<<"https://sspai.com/post/">>, PyGet(item, "id", EmptyStr), <<>>),
         Fmt(<<>>, PyGet(item, "like_count", Num(0)), <<" likes">>), EmptyStr)
fetch_sspai(limit, keyword, env) ==
    ViaFetchJson(env.main, sspai_raw, sspai_item, keyword, limit, "sspai")

baidu_raw(data) ==
    PyGet(Index0(PyGet(PyGet(data, "data", EmptyDict), "cards", List(<<EmptyDict>>))),
          "content", EmptyList)
baidu_item(item) ==
    Item("Baidu Resou", PyGet(item, "word", EmptyStr), PyGet(item, "url", EmptyStr),
         PyGet(item, "hotScore", EmptyStr), S("resou"))
fetch_baidu(limit, keyword, env) ==
    ViaFetchJson(env.main, baidu_raw, baidu_item, keyword, limit, "baidu")

douyin_raw(data) == PyGet(PyGet(data, "data", EmptyDict), "word_list", EmptyList)
douyin_item(item) ==
    LET word == PyGet(item, "word", EmptyStr) IN
    Item("Douyin Rebang", word,
         Fmt(<<"https://www.douyin.com/search/">>, Quote(word), <<>>),
         PyGet(item, "hot_value", EmptyStr), S("rebang"))
fetch_douyin(limit, keyword, env) ==
    ViaFetchJson(env.main, douyin_raw, douyin_item, keyword, limit, "douyin")

bilibili_raw(data) ==
    PyGet(PyGet(PyGet(data, "data", EmptyDict), "trending", EmptyDict), "list", EmptyList)
bilibili_item(item) ==
    LET keyword_text == PyGet(item, "keyword", EmptyStr) IN
    Item("Bzhan Resou", keyword_text,
         Fmt(<<"https://search.bilibili.com/all?keyword=">>, Quote(keyword_text), <<>>),
         EmptyStr, S("resou"))
fetch_bilibili(limit, keyword, env) ==
    ViaFetchJson(env.main, bilibili_raw, bilibili_item, keyword, limit, "bilibili")

toutiao_raw(data) == PyGet(data, "data", EmptyList)
toutiao_item(item) ==
    Item("Jinri Toutiao", PyGet(item, "Title", EmptyStr), PyGet(item, "Url", EmptyStr),
         PyGet(item, "HotValue", EmptyStr), S("rebang"))
fetch_toutiao(limit, keyword, env) ==
    ViaFetchJson(env.main, toutiao_raw, toutiao_item, keyword, limit, "toutiao")

cls_raw(data) == PyGet(PyGet(data, "data", EmptyDict), "roll_data", EmptyList)
cls_item(item) ==
    Item("Cailianshe",
         PyOr(PyGet(item, "title", EmptyStr),
              PySlice(PyGet(item, "content", EmptyStr), 100)),
         Fmt(<<"https://www.cls.cn/detail/">>, PyGet(item, "id", EmptyStr), <<>>),
         EmptyStr, S("dianbao"))
fetch_cls(limit, keyword, env) ==
    ViaFetchJson(env.main, cls_raw, cls_item, keyword, limit, "cls")

thepaper_raw(data) == PyGet(PyGet(data, "data", EmptyDict), "hotNews", EmptyList)
thepaper_item(item) ==
    Item("Pengpai Xinwen", PyGet(item, "name", EmptyStr),
         Fmt(<<"https://www.thepaper.cn/newsDetail_forward_">>,
             PyGet(item, "contId", EmptyStr), <<>>),
         EmptyStr, S("rebang"))
fetch_thepaper(limit, keyword, env) ==
    ViaFetchJson(env.main, thepaper_raw, thepaper_item, keyword, limit, "thepaper")

hupu_raw(data) == PyGet(PyGet(data, "data", EmptyDict), "list", EmptyList)
hupu_item(item) ==
    Item("Hupu", PyGet(item, "title", EmptyStr),
         Fmt(<<"https://bbs.hupu.com/">>, PyGet(item, "tid", EmptyStr), <<>>),
         Fmt(<<>>, PyGet(item, "replies", Num(0)), <<" replies">>), S("retie"))
fetch_hupu(limit, keyword, env) ==
    ViaFetchJson(env.main, hupu_raw, hupu_item, keyword, limit, "hupu")

\* --- 36kr and juejin: urlopen called directly, no `if not data` test
kr36_item(item) ==
    Item("36Kr",
         PyOr(PyGet(item, "title", EmptyStr),
              PyGet(PyGet(item, "templateMaterial", EmptyDict), "widgetTitle", EmptyStr)),
         Fmt(<<"https://36kr.com/newsflashes/">>, PyGet(item, "itemId", EmptyStr), <<>>),
         EmptyStr, S("kuaixun"))
fetch_36kr(limit, keyword, env) ==
    LET data == direct_json(env.main)
        raw == PyGet(PyGet(data, "data", EmptyDict), "itemList", EmptyList)
    IN TryExcept(Pipeline(raw, limit * 2, kr36_item, keyword, limit),
                 <<>>, <<Req("36kr", None)>>, "36kr")

juejin_item(item) ==
    LET info == PyGet(item, "article_info", EmptyDict) IN
    Item("Juejin", PyGet(info, "title", EmptyStr),
         Fmt(<<"https://juejin.cn/post/">>, PyGet(info, "article_id", EmptyStr), <<>>),
         Fmt(<<>>, PyGet(info, "digg_count", Num(0)), <<" diggs">>), EmptyStr)
fetch_juejin(limit, keyword, env) ==
    LET data == direct_json(env.main)
        raw == PyGet(data, "data", EmptyList)
    IN TryExcept(Pipeline(raw, limit * 2, juejin_item, keyword, limit),
                 <<>>, <<Req("juejin", None)>>, "juejin")

\* --- zhihu: a primary endpoint and a fallback
zhihu_item(item) ==
    LET target == PyGet(item, "target", EmptyDict)
        title_area == PyGet(target, "title_area", EmptyDict)
        link == PyGet(target, "link", EmptyDict)
        metrics == PyGet(target, "metrics_area", EmptyDict)
    IN Item("Zhihu Rebang", PyGet(title_area, "text", EmptyStr),
            PyGet(link, "url", EmptyStr), PyGet(metrics, "text", EmptyStr), S("rebang"))
zhihu_fallback_item(item) ==
    LET target == PyGet(item, "target", EmptyDict) IN
    Item("Zhihu Rebang", PyGet(target, "title", EmptyStr),
         ZhihuReplace(PyGet(target, "url", EmptyStr)),
         PyGet(item, "detail_text", EmptyStr), S("rebang"))
\* not data or 'data' not in data -- "raise" when the `in` raises
ZhihuNoData(data) ==
    IF ~Truthy(data) THEN "yes"
    ELSE IF PyInRaises(data) THEN "raise"
    ELSE IF PyIn("data", data) THEN "no" ELSE "yes"
fetch_zhihu(limit, keyword, env) ==
    LET r == fetch_json(env.main)
        data == r.val
        one == <<Req("zhihu", None)>>
        two == <<Req("zhihu", None), Req("zhihu-fallback", None)>>
    IN IF data.k = "raise" THEN TryExcept(RAISE, r.err, one, "zhihu")
       ELSE IF ZhihuNoData(data) = "raise" THEN TryExcept(RAISE, r.err, one, "zhihu")
       ELSE IF ZhihuNoData(data) = "yes"
            THEN LET r2 == fetch_json(env.alt)
                     d2 == r2.val
                     err == r.err \o r2.err
                 IN IF d2.k = "raise" THEN TryExcept(RAISE, err, two, "zhihu")
                    ELSE IF ZhihuNoData(d2) = "raise" THEN TryExcept(RAISE, err, two, "zhihu")
                    ELSE IF ZhihuNoData(d2) = "no"
                         THEN TryExcept(Pipeline(Subscript(d2, "data"), limit * 2,
                                                 zhihu_fallback_item, keyword, limit),
                                        err, two, "zhihu")
                    ELSE TryExcept(EmptyList, err, two, "zhihu")
       ELSE TryExcept(Pipeline(Subscript(data, "data"), limit * 2,
                               zhihu_item, keyword, limit),
                      r.err, one, "zhihu")

\* SOURCES[key][1](limit, keyword)
Adapter(key, limit, keyword, env) ==
    CASE key = "hackernews" -> fetch_hackernews(limit, keyword, env)
      [] key = "github" -> fetch_github(limit, keyword, env)
      [] key = "v2ex" -> fetch_v2ex(limit, keyword, env)
      [] key = "sspai" -> fetch_sspai(limit, keyword, env)
      [] key = "juejin" -> fetch_juejin(limit, keyword, env)
      [] key = "ithome" -> fetch_ithome(limit, keyword, env)
      [] key = "producthunt" -> fetch_producthunt(limit, keyword, env)
      [] key = "weibo" -> fetch_weibo(limit, keyword, env)
      [] key = "zhihu" -> fetch_zhihu(limit, keyword, env)
      [] key = "baidu" -> fetch_baidu(limit, keyword, env)
      [] key = "douyin" -> fetch_douyin(limit, keyword, env)
      [] key = "bilibili" -> fetch_bilibili(limit, keyword, env)
      [] key = "toutiao" -> fetch_toutiao(limit, keyword, env)
      [] key = "tencent" -> fetch_tencent(limit, keyword, env)
      [] key = "thepaper" -> fetch_thepaper(limit, keyword, env)
      [] key = "hupu" -> fetch_hupu(limit, keyword, env)
      [] key = "36kr" -> fetch_36kr(limit, keyword, env)
      [] key = "wallstreetcn" -> fetch_wallstreetcn(limit, keyword, env)
      [] key = "cls" -> fetch_cls(limit, keyword, env)

\* ------------------------------------------------------ upstream responses
\* one raw record carrying every key some adapter reads
RawRecord(t, score) ==
    Dict([title |-> t, word |-> t, Title |-> t, name |-> t, keyword |-> t,
          url |-> S("u"), Url |-> S("u"),
          id |-> Num(1), itemId |-> Num(1), tid |-> Num(1), contId |-> Num(1),
          replies |-> Num(3), like_count |-> Num(3),
          hotScore |-> score, hot_value |-> score, HotValue |-> score,
          detail_text |-> score,
          target |-> Dict([title |-> t,
                           url |-> Str(<<"https://", "api.zhihu.com/questions", "/1">>),
                           title_area |-> Dict([text |-> t]),
                           link |-> Dict([url |-> S("u")]),
                           metrics_area |-> Dict([text |-> score])]),
          article_info |-> Dict([title |-> t, article_id |-> S("7"),
                                 digg_count |-> Num(2)])])
RawA == RawRecord(Str(<<"a">>), S("9"))          \* every field as documented
RawB == RawRecord(Str(<<"B">>), Num(7))          \* the hot score a JSON number
RawNumTitle == RawRecord(Num(4), S("9"))         \* the title a JSON number
RawNoKeys == EmptyDict                           \* every key missing
RawNotDict == Num(5)                             \* not an object at all
RawPool == {RawA, RawB, RawNumTitle, RawNoKeys, RawNotDict}
RawLists == SeqsUpTo(RawPool, MaxRaw)

\* the documented envelope of each JSON source around its list of records
Wrap(key, l) ==
    CASE key = "v2ex" -> List(l)
      [] key \in {"tencent", "hupu"} -> Dict([data |-> Dict([list |-> List(l)])])
      [] key = "wallstreetcn" -> Dict([data |-> Dict([items |-> List(l)])])
      [] key = "sspai" -> Dict([list |-> List(l)])
      [] key \in {"juejin", "toutiao", "zhihu"} -> Dict([data |-> List(l)])
      [] key = "baidu" ->
            Dict([data |-> Dict([cards |-> List(<<Dict([content |-> List(l)])>>)])])
      [] key = "douyin" -> Dict([data |-> Dict([word_list |-> List(l)])])
      [] key = "bilibili" -> Dict([data |-> Dict([trending |-> Dict([list |-> List(l)])])])
      [] key = "cls" -> Dict([data |-> Dict([roll_data |-> List(l)])])
      [] key = "thepaper" -> Dict([data |-> Dict([hotNews |-> List(l)])])
      [] key = "36kr" -> Dict([data |-> Dict([itemList |-> List(l)])])

\* JSON bodies of another shape than the envelope
OddJson ==
    {None, Num(0), Num(7), Str(<<"x">>), EmptyList, EmptyDict, List(<<RawA>>),
     Dict([data |-> None]), Dict([data |-> Num(1)]), Dict([data |-> EmptyDict]),
     Dict([data |-> Dict([cards |-> EmptyList])]), Dict([other |-> Num(1)])}

FailNets == {NetURLError, NetOSError, NetBadBytes}
OddNets == FailNets \cup {NetBody("empty", <<>>), NetBody("garbage", <<>>)}
                    \cup {NetJson(x) : x \in OddJson}
JsonNets(key) == OddNets \cup {NetJson(Wrap(key, l)) : l \in RawLists}

\* the matches of the pattern of an HTML or RSS source
HrefFirstMatches ==
    {[g1 |-> <<"/x">>, g2 |-> <<"a">>, g3 |-> <<"r">>],
     [g1 |-> <<"/y">>, g2 |-> <<" ", "B", " ">>, g3 |-> <<"r", " ">>],
     [g1 |-> <<"javascript:", "v">>, g2 |-> <<"a">>, g3 |-> <<"r">>]}
TitleFirstMatches ==
    {[g1 |-> <<"a">>, g2 |-> <<"/p">>, g3 |-> <<>>],
     [g1 |-> <<" ", "B">>, g2 |-> <<"/q", " ">>, g3 |-> <<>>],
     [g1 |-> <<"a", "b">>, g2 |-> <<"/r">>, g3 |-> <<>>]}
HtmlNets(key) ==
    OddNets \cup {NetHtml(l) : l \in SeqsUpTo(IF key \in {"github", "weibo"}
                                               THEN HrefFirstMatches
                                               ELSE TitleFirstMatches, MaxRaw)}

\* hackernews: the id list and the answer to each detail request
DetailA == Dict([title |-> Str(<<"a">>), url |-> S("u"), score |-> Num(5)])
DetailB == Dict([title |-> Str(<<"B">>)])
DetailNets == {NetURLError, NetOSError, NetJson(DetailA), NetJson(DetailB),
               NetJson(EmptyDict)}
Asc(n) == [i \in 1..n |-> Num(i)]
Desc(n) == [i \in 1..n |-> Num(n + 1 - i)]
ShortIdLists == UNION {{Asc(n), Desc(n)} : n \in 1..MaxIds}
LongIdLists == {Asc(HNCap), Asc(HNCap + 1), Asc(HNCap + 2)}
OddTopNets == FailNets \cup {NetBody("garbage", <<>>)}
                       \cup {NetJson(x) : x \in {None, Num(7), EmptyList, Dict([a |-> Num(1)])}}

Env(main, alt, detail) == [main |-> main, alt |-> alt, detail |-> detail]
HNEnvs ==
    {Env(NetJson(List(ids)), NetURLError, d) :
        ids \in ShortIdLists, d \in [1..MaxIds -> DetailNets]}
    \cup {Env(NetJson(List(ids)), NetURLError, [i \in 1..Len(ids) |-> NetJson(DetailB)]) :
            ids \in LongIdLists}
    \cup {Env(n, NetURLError, <<>>) : n \in OddTopNets}
\* zhihu: any primary answer with a short or failing fallback, and an unusable
\* primary answer with any fallback
ZhihuEnvs ==
    {Env(m, a, <<>>) : m \in JsonNets("zhihu"),
                       a \in {NetURLError, NetJson(Wrap("zhihu", <<RawA>>))}}
    \cup {Env(m, a, <<>>) : m \in OddNets, a \in JsonNets("zhihu")}
Envs(key) ==
    CASE key = "hackernews" -> HNEnvs
      [] key = "zhihu" -> ZhihuEnvs
      [] key \in {"github", "weibo", "producthunt", "ithome"} ->
            {Env(m, NetURLError, <<>>) : m \in HtmlNets(key)}
      [] OTHER -> {Env(m, NetURLError, <<>>) : m \in JsonNets(key)}

\* --limit is any int; the long id lists are met with a limit above the cap too
Limits(key) ==
    ((0 - NegLimits)..MaxLimit)
        \cup (IF key = "hackernews" THEN {HNCap, HNCap + 1} ELSE {})
AdapterKeywords == {None, Str(<<"a">>), Str(<<"B">>)}

\* ------------------------------------------- specification: one adapter call
AdapterInit ==
    /\ a_pc = "call"
    /\ a_key \in KeySet
    /\ a_limit \in Limits(a_key)
    /\ a_keyword \in AdapterKeywords
    /\ a_env \in Envs(a_key)
    /\ a_result = <<>> /\ a_raised = FALSE /\ a_err = <<>> /\ a_reqs = <<>>
    /\ FIdle /\ MIdle /\ HIdle

\* items = fetcher(args.limit, args.keyword)
AdapterCall ==
    /\ a_pc = "call"
    /\ \E r \in {Adapter(a_key, a_limit, a_keyword, a_env)} :
        /\ a_result' = r.ret
        /\ a_raised' = r.raised
        /\ a_err' = r.err
        /\ a_reqs' = r.reqs
    /\ a_pc' = "done"
    /\ UNCHANGED <<a_key, a_limit, a_keyword, a_env, fvars, mvars, hvars>>

AdapterNext == AdapterCall
SpecAdapter == AdapterInit /\ [][AdapterNext]_vars

\* --------------------------------- specification: one call of the fetch helper
HelperNets == JsonNets("v2ex") \cup HtmlNets("github")
HelperInit ==
    /\ h_pc = "call"
    /\ h_fn \in {"fetch", "fetch_json"}
    /\ h_net \in HelperNets
    /\ h_out = <<>>
    /\ FIdle /\ MIdle /\ AIdle

\* fetch(url) or fetch_json(url)
HelperCall ==
    /\ h_pc = "call"
    /\ h_out' = IF h_fn = "fetch" THEN fetch(h_net) ELSE fetch_json(h_net)
    /\ h_pc' = "done"
    /\ UNCHANGED <<h_fn, h_net, fvars, mvars, avars>>

HelperNext == HelperCall
SpecHelper == HelperInit /\ [][HelperNext]_vars

\* C3: fetch and fetch_json never raise: on a transport error, on a body that
\* cannot be decoded and on a JSON parse failure they return None and write a
\* line to the error stream.
TransportError == h_net.k \in {"urlerror", "oserror"}
UndecodableBody == h_net.k = "badbytes"
JsonParseFailure ==
    h_fn = "fetch_json" /\ h_net.k = "body" /\ h_net.v.v.form \in {"garbage", "html"}
C3_HelperNeverRaises ==
    h_pc = "done" =>
        /\ h_out.val.k # "raise"
        /\ (TransportError \/ UndecodableBody \/ JsonParseFailure)
              => (h_out.val = None /\ h_out.err # <<>>)

\* ------------------------------------------------- claims on one adapter call
Done == a_pc = "done"

\* C1: whatever int --limit passes, whatever the keyword and however many raw
\* candidates the upstream response holds, an adapter returns at most `limit`
\* elements.
\* (A list has no fewer than zero elements: for a negative limit the claim
\* is read as "no element at all".)
C1_AtMostLimit == Done => Len(a_result) <= Max(a_limit, 0)

\* C2 as stated: when the request(s) fail or the response has an unexpected
\* shape (missing keys, wrong types, malformed body) the adapter returns the
\* empty list and propagates no exception.
\* The answers of documented shape: the envelope around records that carry
\* every key with a value of the documented type.
GoodRaw == {RawA}
Documented(key, net) ==
    CASE key \in {"github", "weibo", "producthunt", "ithome"} ->
            net.k = "body" /\ net.v.v.form = "html"
      [] key = "hackernews" ->
            \E ids \in ShortIdLists \cup LongIdLists : net = NetJson(List(ids))
      [] OTHER -> \E l \in SeqsUpTo(GoodRaw, MaxRaw) : net = NetJson(Wrap(key, l))
DocumentedDetail(net) == net \in {NetJson(DetailA), NetJson(DetailB)}
\* the detail requests issued
NDetails == Len(a_reqs) - 1
RequestFailedOrOddShape ==
    \/ ~Documented(a_key, a_env.main)
    \/ a_key = "hackernews" /\ \E p \in 1..NDetails : ~DocumentedDetail(a_env.detail[p])
C2_FailureOrOddShapeGivesEmpty ==
    Done => /\ ~a_raised
            /\ RequestFailedOrOddShape => a_result = <<>>

\* C2 amended: no exception leaves an adapter; it returns [] when every request
\* it issues fails, when the body is no JSON (or, for a scraped page, holds no
\* match) and when the envelope around the records has another shape than the
\* documented one.  (Records that lack keys are not covered: they give items
\* with default values.)
IssuedNets ==
    CASE a_key = "zhihu" -> IF Len(a_reqs) = 2 THEN {a_env.main, a_env.alt} ELSE {a_env.main}
      [] a_key = "hackernews" -> {a_env.main} \cup {a_env.detail[p] : p \in 1..NDetails}
      [] OTHER -> {a_env.main}
OddEnvelope(key, net) ==
    /\ net \in OddNets \cup OddTopNets
    /\ key = "v2ex" => net # NetJson(List(<<RawA>>))
AllIssuedFailOrOdd ==
    \A net \in IssuedNets : net \in FailNets \/ OddEnvelope(a_key, net)
C2_NeverPropagates_EmptyOnFailure ==
    Done => /\ ~a_raised
            /\ AllIssuedFailOrOdd => a_result = <<>>
\* 36kr, which calls urlopen itself, met a connection failure
C2_Witness ==
    /\ Done /\ a_key = "36kr" /\ a_env.main = NetURLError
    /\ a_result = <<>> /\ ~a_raised /\ a_err = <<"36kr">>

\* C8: every element of the output has exactly the five fields source, title,
\* url, score and time, each of them a string.
FiveFields == {"source", "title", "url", "score", "time"}
IsNewsItem(item) ==
    /\ item.k = "dict"
    /\ DOMAIN item.v = FiveFields
    /\ \A f \in FiveFields : item.v[f].k = "str"
C8_FiveStringFields == Done => \A i \in 1..Len(a_result) : IsNewsItem(a_result[i])

\* ---------------------------------------------------- claims on hackernews
\* the ids the top-stories endpoint returned, when it returned a list
TopIsList == a_env.main.k = "body" /\ a_env.main.v.v.form = "json"
                /\ a_env.main.v.v.val.k = "list"
TopIds == a_env.main.v.v.val.v
DetailOf(p) == a_env.detail[p].v.v.val
\* every detail request would succeed, with a non-empty title
AllDetailsGood == \A p \in 1..Len(TopIds) : DocumentedDetail(a_env.detail[p])
\* the item of the p-th id: its title, and its id in the link when the detail
\* carries no url
ItemIsOfId(item, p) ==
    /\ item.v["source"] = S("Hacker News")
    /\ item.v["title"] = DetailOf(p).v["title"]
    /\ "url" \notin DOMAIN DetailOf(p).v =>
          item.v["url"] = Str(<<"https://news.ycombinator.com/item?id=",
                                ToString(TopIds[p].v)>>)
C9_Case ==
    /\ Done /\ a_key = "hackernews" /\ a_keyword = None /\ a_limit >= 1
    /\ TopIsList /\ Len(TopIds) >= a_limit /\ AllDetailsGood

\* C9 as stated: with no keyword and any limit L >= 1, N >= L ids and every
\* detail good, hackernews returns exactly L items labelled "Hacker News",
\* those of the first L ids in id-list order.
C9_ExactlyLimitItems ==
    C9_Case => /\ Len(a_result) = a_limit
               /\ \A i \in 1..Len(a_result) : ItemIsOfId(a_result[i], i)

\* C9 amended: the same with the cap on detail requests: exactly min(L, 50)
\* items, those of the first min(L, 50) ids in id-list order; so exactly L
\* items for 1 <= L <= 50.
C9_ExactlyLimitItemsUpToCap ==
    C9_Case => /\ Len(a_result) = Min(a_limit, HNCap)
               /\ \A i \in 1..Len(a_result) : ItemIsOfId(a_result[i], i)
\* limit 2 against three ids in descending order: the items of ids 3 and 2
C9_Witness ==
    /\ C9_Case /\ a_limit = 2 /\ TopIds = Desc(3)
    /\ \A p \in 1..3 : a_env.detail[p] = NetJson(DetailB)
    /\ Len(a_result) = 2
    /\ a_result[1].v["url"] = Str(<<"https://news.ycombinator.com/item?id=", "3">>)
    /\ a_result[2].v["url"] = Str(<<"https://news.ycombinator.com/item?id=", "2">>)

\* C10: for every limit and id list, hackernews issues at most
\* min(2*limit, 50) detail requests, one after another in id-list order, and
\* an id whose detail request fails or whose detail has no title contributes
\* no item without stopping the remaining detail requests.
DetailFails(p) == a_env.detail[p].k \in {"urlerror", "oserror", "badbytes"}
DetailHasNoTitle(p) == a_env.detail[p] = NetJson(EmptyDict)
\* the ids whose details are to be requested: the first min(2*limit, 50)
DetailCap == Max(Min(2 * a_limit, HNCap), 0)
Planned == Min(Len(TopIds), DetailCap)
Contributing == {p \in 1..NDetails : ~DetailFails(p) /\ ~DetailHasNoTitle(p)}
C10_Bounded == NDetails <= DetailCap
C10_InOrder == \A p \in 1..NDetails : a_reqs[p + 1] = Req("item", TopIds[p])
C10_NotStopped == NDetails = Planned
C10_NoItemOfFailed == Len(a_result) <= Cardinality(Contributing)
\* (checked at the limits >= 0, where min(2*limit, 50) is a count)
C10_BoundedSequentialDetails ==
    (Done /\ a_key = "hackernews" /\ TopIsList /\ a_limit >= 0) =>
        C10_Bounded /\ C10_InOrder /\ C10_NotStopped /\ C10_NoItemOfFailed

\* ------------------------------------------------ specification: a run of main
\* the tokens of --source (args.source.split(',')), as typed
TokAll == <<"a", "l", "l">>
TokAllUpper == <<" ", "A", "L", "L">>
TokTech == <<"t", "e", "c", "h">>
TokChina == <<"c", "h", "i", "n", "a">>
TokFinance == <<"F", "i", "n", "a", "n", "c", "e", " ">>
TokV2ex == <<" ", "V", "2", "E", "X">>
TokHackernews == <<"h", "a", "c", "k", "e", "r", "n", "e", "w", "s">>
Tok36kr == <<"3", "6", "k", "r">>
TokBogus == <<"b", "o", "g", "u", "s">>
RawTokens == {TokAll, TokAllUpper, TokTech, TokChina, TokFinance, TokV2ex,
              TokHackernews, Tok36kr, TokBogus, <<>>}
\* ','.join(tokens)
RECURSIVE CommaJoin(_)
CommaJoin(ts) ==
    IF Len(ts) = 1 THEN ts[1] ELSE ts[1] \o <<",">> \o CommaJoin(Tail(ts))
SourceArgs == {CommaJoin(ts) : ts \in UNION {[1..m -> RawTokens] : m \in 1..MaxTokens}}

\* the network during one run: every source answers in its documented shape
\* with two records, but for at most one source, whose request meets trouble
TroubleKeys == {"hackernews", "github", "zhihu", "36kr", "producthunt"}
TroubleNets == {NetOSError, NetBody("garbage", <<>>)}
Worlds == {[key |-> "-", net |-> NetURLError]}
              \cup {[key |-> k, net |-> n] : k \in TroubleKeys, n \in TroubleNets}
GoodEnv(key) ==
    CASE key = "hackernews" ->
            Env(NetJson(List(Asc(2))), NetURLError, <<NetJson(DetailA), NetJson(DetailB)>>)
      [] key \in {"github", "weibo"} ->
            Env(NetHtml(<<[g1 |-> <<"/x">>, g2 |-> <<"a">>, g3 |-> <<"r">>],
                          [g1 |-> <<"/y">>, g2 |-> <<" ", "B", " ">>, g3 |-> <<"r", " ">>]>>),
                NetURLError, <<>>)
      [] key \in {"producthunt", "ithome"} ->
            Env(NetHtml(<<[g1 |-> <<"a">>, g2 |-> <<"/p">>, g3 |-> <<>>],
                          [g1 |-> <<" ", "B">>, g2 |-> <<"/q", " ">>, g3 |-> <<>>]>>),
                NetURLError, <<>>)
      [] OTHER -> Env(NetJson(Wrap(key, <<RawA, RawB>>)), NetURLError, <<>>)
EnvFor(w, key) == IF key = w.key THEN Env(w.net, w.net, <<>>) ELSE GoodEnv(key)

MainInit ==
    /\ pc = "resolve"
    /\ args \in [source : SourceArgs, limit : {MaxLimit},
                 keyword : {None, Str(<<"a">>)}, list : BOOLEAN]
    /\ world \in Worlds
    /\ sources = <<>> /\ calls = <<>> /\ all_items = <<>>
    /\ stdout = None /\ stderr = <<>>
    /\ FIdle /\ AIdle /\ HIdle

\* if args.list: print the sources by category and return
ListingOf(cat) ==
    LET ks == get_sources_by_category(cat) IN
    <<S(cat)>> \o [i \in 1..Len(ks) |-> S(ks[i])]
MainList ==
    /\ pc = "resolve" /\ args.list
    /\ stdout' = List(ListingOf("tech") \o ListingOf("china") \o ListingOf("finance"))
    /\ pc' = "done"
    /\ UNCHANGED <<args, sources, calls, all_items, stderr, world, fvars, avars, hvars>>

\* the resolution of args.source into the list of keys (lines 571-584)
MainResolve ==
    /\ pc = "resolve" /\ ~args.list
    /\ LET r == ResolveSources(args.source) IN
        /\ sources' = r.sources
        /\ stderr' = stderr \o r.err
    /\ pc' = "fetch"
    /\ UNCHANGED <<args, calls, all_items, stdout, world, fvars, avars, hvars>>

\* one turn of `for src in sources`: the adapter of the next key is called and
\* its items are appended; an exception leaving the adapter would end the run
MainFetch_StopOnEmpty ==
    /\ pc = "fetch" /\ Len(calls) < Len(sources)
    /\ \E src \in {sources[Len(calls) + 1]} :
       \E r \in {Adapter(src, args.limit, args.keyword, EnvFor(world, src))} :
          /\ calls' = Append(calls, [src |-> src, items |-> r.ret])
          /\ all_items' = all_items \o r.ret
          /\ stderr' = stderr \o r.err
          /\ pc' = IF r.ret = <<>> THEN "print" ELSE "fetch"
    /\ UNCHANGED <<args, sources, stdout, world, fvars, avars, hvars>>
MainFetch ==
    /\ pc = "fetch" /\ Len(calls) < Len(sources)
    /\ \E src \in {sources[Len(calls) + 1]} :
       \E r \in {Adapter(src, args.limit, args.keyword, EnvFor(world, src))} :
          IF r.raised
          THEN /\ pc' = "crashed"
               /\ UNCHANGED <<calls, all_items, stderr>>
          ELSE /\ calls' = Append(calls, [src |-> src, items |-> r.ret])
               /\ all_items' = all_items \o r.ret
               /\ stderr' = stderr \o r.err
               /\ pc' = "fetch"
    /\ UNCHANGED <<args, sources, stdout, world, fvars, avars, hvars>>

\* print(json.dumps(all_items, ...)) once the loop is over
MainPrint ==
    /\ pc \in {"fetch", "print"}
    /\ pc = "fetch" => Len(calls) = Len(sources)
    /\ stdout' = List(all_items)
    /\ pc' = "done"
    /\ UNCHANGED <<args, sources, calls, all_items, stderr, world, fvars, avars, hvars>>

MainNext == MainList \/ MainResolve \/ MainFetch \/ MainPrint
SpecMain == MainInit /\ [][MainNext]_vars

\* ------------------------------------------------------ claims on a run of main
Resolved == pc \in {"fetch", "print", "done", "crashed"} /\ ~args.list
Tokens == LET ts == Split(args.source)
          IN [i \in 1..Len(ts) |-> NormToken(ts[i])]
HasAll == LET toks == Tokens IN \E i \in 1..Len(toks) : toks[i] = "all"
\* the position of a key in the registry
RegistryIndex(key) == CHOOSE i \in 1..Len(SOURCES) : SOURCES[i].key = key
CategoryOf(key) == SOURCES[RegistryIndex(key)].cat

\* C5: whenever --source contains the token `all`, at any position and with
\* any other tokens around it, the resolved list is every registered key
\* exactly once, in registry order.
C5_AllGivesRegistry ==
    (Resolved /\ HasAll) =>
        /\ Len(sources) = Len(SOURCES)
        /\ \A i \in 1..Len(SOURCES) : sources[i] = SOURCES[i].key
\* ` V2EX, ALL`: `all` after a known key, both to be stripped and lowered
C5_Witness ==
    /\ Resolved /\ args.source = CommaJoin(<<TokV2ex, TokAllUpper>>)
    /\ sources = SourceKeys

\* C6: without `all`, the resolved list is the order-preserving
\* de-duplication of the concatenated token expansions (a category gives its
\* keys in registry order, a known key itself, an unknown token nothing): no
\* duplicates, only registered keys, `tech,tech` the tech keys once each,
\* only unknown tokens the empty list.
\* The key k is among the expansion of token t
Expands(t, k) == k \in KeySet /\ (t = k \/ t = CategoryOf(k))
\* the first of the tokens toks whose expansion holds k
FirstToken(toks, k) == CHOOSE i \in 1..Len(toks) :
                          /\ Expands(toks[i], k)
                          /\ \A j \in 1..(i - 1) : ~Expands(toks[j], k)
C6_OrderedDedupOfExpansions ==
    (Resolved /\ ~HasAll) =>
        LET toks == Tokens
            n == Len(sources)
            first == [i \in 1..n |-> FirstToken(toks, sources[i])]
            index == [i \in 1..n |-> RegistryIndex(sources[i])]
        IN /\ \A i, j \in 1..n : i # j => sources[i] # sources[j]
           /\ {sources[i] : i \in 1..n}
                 = {k \in KeySet : \E i \in 1..Len(toks) : Expands(toks[i], k)}
           /\ \A i \in 1..(n - 1) :
                 \/ first[i] < first[i + 1]
                 \/ first[i] = first[i + 1] /\ index[i] < index[i + 1]
           /\ (\A i \in 1..Len(toks) : toks[i] = "tech")
                 => sources = get_sources_by_category("tech")
           /\ (\A i \in 1..Len(toks) : toks[i] \notin KeySet \cup Categories)
                 => sources = <<>>
\* `tech,tech`: the seven tech keys, once each
C6_Witness ==
    /\ Resolved /\ args.source = CommaJoin(<<TokTech, TokTech>>)
    /\ Len(sources) = 7 /\ sources[1] = "hackernews" /\ sources[7] = "producthunt"

\* C7: in a fetch-mode run the dispatcher calls exactly the adapters of the
\* resolved keys, each once and in resolved order, none of an unselected
\* source (no finance adapter for `tech,china`); an adapter that yields [] or
\* fails inside does not stop or change the later calls; what is printed is
\* the concatenation of the adapters' results in that order.
RECURSIVE ConcatItems(_)
ConcatItems(cs) == IF cs = <<>> THEN <<>> ELSE Head(cs).items \o ConcatItems(Tail(cs))
C7_DispatchInResolvedOrder ==
    Resolved =>
        /\ pc # "crashed"
        /\ Len(calls) <= Len(sources)
        /\ \A i \in 1..Len(calls) : calls[i].src = sources[i]
        /\ \A i, j \in 1..Len(calls) : i # j => calls[i].src # calls[j].src
        /\ LET toks == Tokens
           IN (\A i \in 1..Len(toks) : toks[i] \in {"tech", "china"})
                 => \A i \in 1..Len(calls) : CategoryOf(calls[i].src) # "finance"
        /\ pc = "done" =>
              /\ Len(calls) = Len(sources)
              /\ stdout = List(ConcatItems(calls))
\* `tech,china` with github in trouble: github gives [], the fourteen later
\* adapters are still called, and the run prints the others' items
C7_Witness ==
    /\ pc = "done" /\ ~args.list
    /\ args.source = CommaJoin(<<TokTech, TokChina>>) /\ world.key = "github"
    /\ Len(calls) = 16 /\ calls[2].src = "github" /\ calls[2].items = <<>>
    /\ calls[16].src = "hupu" /\ calls[16].items # <<>>
    /\ Len(stdout.v) > 0

\* ------------------------------------ claims on the pipeline of an adapter
\* the records of a well-formed upstream list: every key, documented types
PipeRecords == {RawA, RawB}
HtmlKeys == {"github", "weibo", "producthunt", "ithome"}
\* the call met a response of documented shape carrying well-formed records
HasCandidates ==
    CASE a_key \in HtmlKeys -> a_env.main.k = "body" /\ a_env.main.v.v.form = "html"
      [] a_key = "hackernews" -> TopIsList /\ AllDetailsGood
      [] OTHER -> \E l \in SeqsUpTo(PipeRecords, MaxRaw) :
                      a_env.main = NetJson(Wrap(a_key, l))
\* the raw candidates of that response, in upstream order
Candidates ==
    CASE a_key \in HtmlKeys -> a_env.main.v.v.val
      [] a_key = "hackernews" ->
            [p \in 1..Len(TopIds) |-> [id |-> TopIds[p], detail |-> DetailOf(p)]]
      [] OTHER -> CHOOSE l \in SeqsUpTo(PipeRecords, MaxRaw) :
                      a_env.main = NetJson(Wrap(a_key, l))
\* the item an adapter makes of one raw candidate
ItemOf(key, raw) ==
    CASE key = "hackernews" -> hackernews_item(raw.detail, raw.id)
      [] key = "github" -> github_item(raw)
      [] key = "weibo" -> weibo_item(raw)
      [] key = "producthunt" -> producthunt_item(raw)
      [] key = "ithome" -> ithome_item(raw)
      [] key = "v2ex" -> v2ex_item(raw)
      [] key = "tencent" -> tencent_item(raw)
      [] key = "wallstreetcn" -> wallstreetcn_item(raw)
      [] key = "sspai" -> sspai_item(raw)
      [] key = "baidu" -> baidu_item(raw)
      [] key = "douyin" -> douyin_item(raw)
      [] key = "bilibili" -> bilibili_item(raw)
      [] key = "toutiao" -> toutiao_item(raw)
      [] key = "cls" -> cls_item(raw)
      [] key = "thepaper" -> thepaper_item(raw)
      [] key = "hupu" -> hupu_item(raw)
      [] key = "36kr" -> kr36_item(raw)
      [] key = "juejin" -> juejin_item(raw)
      [] key = "zhihu" -> zhihu_item(raw)
\* the first `limit` keyword-matching items among the first 2*limit candidates
FirstMatching(key, raw, keyword, limit) ==
    LET cands == SubSeq(raw, 1, Min(2 * limit, Len(raw)))
        items == [i \in 1..Len(cands) |-> ItemOf(key, cands[i])]
        kept == RefFilter(items, keyword)
    IN SubSeq(kept, 1, Min(limit, Len(kept)))
\* a call with a limit under which the cap on hackernews details does not bind
C11_Case == Done /\ a_limit >= 1 /\ 2 * a_limit <= HNCap /\ HasCandidates

\* C11: every adapter takes up to limit*2 raw candidates, maps each of them to
\* an item, applies the keyword filter and only then truncates to limit: its
\* result is the first `limit` keyword-matching items among the first 2*limit
\* raw candidates (stated for 2*limit <= 50, where hackernews' cap is idle).
C11_FirstLimitOfFirstTwiceLimit ==
    C11_Case => a_result = FirstMatching(a_key, Candidates, a_keyword, a_limit)

\* ---------------------------------------------------------- claims on zhihu
\* The answer carries a usable `data` field: the request succeeded, the body
\* parsed to an object, and its `data` is a list
UsableData(net) ==
    /\ net.k = "body" /\ net.v.v.form = "json"
    /\ net.v.v.val.k = "dict"
    /\ "data" \in DOMAIN net.v.v.val.v
    /\ net.v.v.val.v["data"].k = "list"
PrimaryRequest == Req("zhihu", None)
FallbackRequest == Req("zhihu-fallback", None)
C12_Case == Done /\ a_key = "zhihu"

\* C12: zhihu requests the primary endpoint first, and the fallback endpoint
\* exactly once if and only if the primary answer yields no usable `data`
\* field (request failed, unparseable, `data` absent or unusable); never more
\* than two requests, never the fallback when the primary is usable, and []
\* when neither endpoint yields a usable `data` field.
C12_StaticTwoStepFallback ==
    C12_Case =>
        /\ Len(a_reqs) \in {1, 2}
        /\ a_reqs[1] = PrimaryRequest
        /\ Len(a_reqs) = 2 => a_reqs[2] = FallbackRequest
        /\ Len(a_reqs) = 2 <=> ~UsableData(a_env.main)
        /\ (~UsableData(a_env.main) /\ ~UsableData(a_env.alt)) => a_result = <<>>

====
